---- MODULE Spec2Model ----
(***************************************************************************)
(* Cosmic Flow: hand landmarks -> velocity estimate -> smoothed intensity  *)
(* -> wind audio parameters and session statistics.                        *)
(*                                                                         *)
(* Numbers.  The program computes in IEEE doubles.  The model keeps every  *)
(* intensity as an integer count of 1/Scale, rounds after each arithmetic  *)
(* operation as the floating-point unit does (at a much coarser grain),    *)
(* and keeps the two non-finite doubles the code can produce, NaN and      *)
(* +Infinity, as two values outside the finite range.                      *)
(***************************************************************************)
EXTENDS Integers, Sequences, FiniteSets, TLC

\* ------------------------------------------------------------------ bounds
MaxSteps == 4        \* smoothing ticks and detector frames in one run of the application
MaxClicks == 2       \* clicks on INITIALIZE SYSTEM in one run
MaxFrames == 3       \* detector frames when the estimator is run on its own
MaxPipelineFrames == 2   \* detector frames in one run of the pipeline
MaxPipelineTicks == 12   \* smoothing ticks in one run of the pipeline
MaxGraphs == 2       \* audio graphs built when the engine is driven directly
MaxSessionSteps == 3 \* smoothing ticks and detector frames in a run of whole sessions
Count == 4           \* particles generated (parameters.count, 15000 in part_001:26)
MaxGalaxyFrames == 2 \* frames of the field animator in one run

\* ----------------------------------------------------------- representation
Scale == 10000       \* one unit of intensity
CoordScale == 10     \* one unit of a normalized image coordinate
MsPerSecond == 1000  \* part_001:219  (currentTime - time) / 1000
GainScale == 2 * Scale      \* gain targets are kept in halves of 1/Scale
NaN == 0 - 2147000000       \* the double NaN
Infinity == 2147000000      \* the double +Infinity
Pi == 31416                 \* Math.PI, in 1/Scale
ByteMax == 255              \* a colour channel of '#rrggbb' is byte / 255
NULL == 0 - 1               \* null, where the other values are records or ids

\* ------------------------------------------------------- program constants
LerpDen == 10               \* part_000:92   diff * 0.1
ClampNum == 3               \* part_001:226  Math.min(velocity * 2, 1.5): 1.5 = 3/2
ClampDen == 2
Sensitivity == 2            \* part_001:226  velocity * 2
GainNum == 3                \* audioService.ts:64  intensity * 1.5
GainDen == 2
MaxGainNum == 8             \* audioService.ts:64  0.8
MaxGainDen == 10
BaseFreq == 200             \* audioService.ts:65 and :36
FreqSpan == 1500            \* audioService.ts:65
DeadbandNum == 5            \* part_000:106  smoothedVelocity > 0.05
DeadbandDen == 100
Radius == 5                 \* part_001:28  radius
Branches == 3               \* part_001:29  branches
Spin == 1                   \* part_001:30  spin
RandomnessNum == 2          \* part_001:31  randomness: 0.2 = 2/10
RandomnessDen == 10
RandomnessPower == 3        \* part_001:32  randomnessPower
InsideColor == <<255, 96, 48>>    \* part_001:33  '#ff6030'
OutsideColor == <<27, 57, 132>>   \* part_001:34  '#1b3984'
BaseSpinNum == 5            \* part_001:78  0.05 * delta
BaseSpinDen == 100
SpinGain == 2               \* part_001:78  velocity * 2 * delta
TiltNum == 1                \* part_001:82  velocity * 0.5
TiltDen == 2
ScaleGainNum == 1           \* part_001:85  1 + velocity * 0.5
ScaleGainDen == 2
FrameLerpDen == 10          \* part_001:82 and :86  lerp(..., 0.1)

\* ------------------------------------------------------------ inputs drawn
Xs == {1, 3}                \* wrist.x, in 1/CoordScale
Ys == {1, 2}                \* wrist.y
TimeSteps == {0, 100, 400}  \* ms the clock is seen to advance between two frames
AppYs == {1}                \* the same, in runs of the whole application
AppTimeSteps == {0, 400}
Intensities == {0, 100, 500, 501, 5000, 5334, 10000, 12000, 15000}
\* the seven results of Math.random() one particle consumes, in call order:
\* radius, then (power, sign) for x, y and z; each in [0, 1), in 1/Scale
ParticleDraws == { <<0, 0, 0, 0, 0, 0, 0>>,
                   <<9999, 9999, 0, 5000, 5000, 9999, 9999>>,
                   <<5000, 5000, 9999, 9999, 4999, 0, 5000>> }
Deltas == {0, 167, 333}     \* seconds between two rendered frames, in 1/Scale
GalaxyIntensities == {0, 5000, 15000}

\* -------------------------------------------------------------- arithmetic
Abs(n) == IF n < 0 THEN 0 - n ELSE n

IsFinite(v) == v # NaN /\ v # Infinity

\* n / d rounded to nearest (ties away from zero), d > 0
RoundDiv(n, d) == IF n >= 0 THEN (2 * n + d) \div (2 * d)
                  ELSE 0 - ((2 * (0 - n) + d) \div (2 * d))

RECURSIVE SqrtSearch(_, _, _)
SqrtSearch(n, lo, hi) ==
    IF lo >= hi THEN lo
    ELSE LET mid == (lo + hi + 1) \div 2
         IN  IF mid * mid <= n THEN SqrtSearch(n, mid, hi)
             ELSE SqrtSearch(n, lo, mid - 1)

\* Math.sqrt of a squared distance d2 given in 1/CoordScale^2, result in 1/Scale
MathSqrt(d2) ==
    SqrtSearch(d2 * (Scale \div CoordScale) * (Scale \div CoordScale), 0, 2 * Scale)

\* Math.min(a, b): NaN if either is NaN
MathMin(a, b) == IF a = NaN \/ b = NaN THEN NaN
                 ELSE IF a < b THEN a ELSE b

\* a * k for a small positive integer k
Times(a, k) == IF a = NaN THEN NaN
               ELSE IF a = Infinity THEN Infinity
               ELSE a * k

\* distance / dt, distance >= 0 in 1/Scale, dt in ms (the code divides by
\* dt/1000 seconds): x/0 is +Infinity for x > 0 and 0/0 is NaN
DivByDt(distance, dtMs) ==
    IF dtMs = 0 THEN (IF distance = 0 THEN NaN ELSE Infinity)
    ELSE IF dtMs > 0 THEN (distance * MsPerSecond) \div dtMs
    ELSE 0 - ((distance * MsPerSecond) \div (0 - dtMs))

\* Math.pow(u, n) for u in [0, 1]
RECURSIVE MathPow(_, _)
MathPow(u, n) == IF n = 0 THEN Scale ELSE RoundDiv(MathPow(u, n - 1) * u, Scale)

\* Math.sin on [0, pi], by Bhaskara's rational approximation
\* 16 x (pi - x) / (5 pi^2 - 4 x (pi - x)), good to 0.002
SinHalfTurn(x) ==
    LET q == RoundDiv(x * (Pi - x), Scale)
    IN  RoundDiv(16 * q * 1000, RoundDiv(5 * RoundDiv(Pi * Pi, Scale) - 4 * q, 10))

\* Math.sin and Math.cos of an angle >= 0, in 1/Scale
MathSin(x) ==
    LET r == x % (2 * Pi)
    IN  IF r <= Pi THEN SinHalfTurn(r) ELSE 0 - SinHalfTurn(r - Pi)

MathCos(x) == MathSin(x + Pi \div 2)

\* ------------------------------------------------------------------- state
VARIABLES
    appState,          \* App: useState<AppState>
    velocity,          \* App: useState(0), the latest target intensity
    smoothedVelocity,  \* App: useState(0)
    cosmicReading,     \* App: useState<CosmicReading | null>
    sessionStats,      \* App: useRef({totalVelocity, peakVelocity, samples, startTime})
    audioEngine,       \* the AudioEngine singleton
    motion,            \* the mounted MotionController, if any
    now,               \* the clock read by performance.now() and Date.now(), ms
    pendingStarts,     \* handleStart calls awaiting getUserMedia
    pendingInsights,   \* handleEndSession calls awaiting generateCosmicInsight
    cameraTracks,      \* live video tracks of the capture device
    smoothingLoop,     \* whether the smoothing loop has a frame requested
    crashed,           \* an effect threw and React unmounted the tree
    galaxy,            \* GalaxyScene: the particle arrays and the transform of <points>
    ticks, frames, clicks,   \* counters that bound a run
    lastOp             \* history: the operation that led here, and what it saw

vars == <<appState, velocity, smoothedVelocity, cosmicReading, sessionStats,
          audioEngine, motion, now, pendingStarts, pendingInsights,
          cameraTracks, smoothingLoop, crashed, galaxy, ticks, frames, clicks, lastOp>>

appVars == <<appState, velocity, smoothedVelocity, cosmicReading, sessionStats,
             motion, now, pendingStarts, pendingInsights, cameraTracks,
             smoothingLoop, crashed, galaxy, ticks, frames, clicks>>

\* ------------------------------------------------------------- AudioEngine
\* The fields of the class, the two AudioParam targets, and three counters
\* of what the platform was asked to do.
NewEngine ==
    [ctx |-> NULL, ctxState |-> "none",
     noiseNode |-> NULL, gainNode |-> NULL, filterNode |-> NULL,
     isInitialized |-> FALSE,
     gain |-> NULL, frequency |-> NULL,
     built |-> 0, started |-> 0, reclosed |-> FALSE]

MaxGain == (MaxGainNum * GainScale) \div MaxGainDen

\* init(): ok = the AudioContext constructor succeeds; suspended = the
\* autoplay policy creates the context suspended
EngineInitBroken(eng, ok, suspended) ==
    IF ~ok THEN [engine |-> eng, threw |-> TRUE]
    ELSE [engine |-> [eng EXCEPT !.ctx = eng.built + 1,
                                 !.ctxState = IF suspended THEN "suspended" ELSE "running",
                                 !.noiseNode = eng.built + 1,
                                 !.filterNode = eng.built + 1,
                                 !.gainNode = eng.built + 1,
                                 !.frequency = BaseFreq * Scale,
                                 !.gain = 0,
                                 !.built = eng.built + 1,
                                 !.started = eng.started + 1,
                                 !.isInitialized = TRUE],
          threw |-> FALSE]

EngineInit(eng, ok, suspended) ==
    IF eng.isInitialized THEN [engine |-> eng, threw |-> FALSE]
    ELSE IF ~ok THEN [engine |-> eng, threw |-> TRUE]
    ELSE [engine |-> [eng EXCEPT !.ctx = eng.built + 1,
                                 !.ctxState = IF suspended THEN "suspended" ELSE "running",
                                 !.noiseNode = eng.built + 1,
                                 !.filterNode = eng.built + 1,
                                 !.gainNode = eng.built + 1,
                                 !.frequency = BaseFreq * Scale,
                                 !.gain = 0,
                                 !.built = eng.built + 1,
                                 !.started = eng.started + 1,
                                 !.isInitialized = TRUE],
          threw |-> FALSE]

EngineResume(eng) ==
    IF eng.ctx # NULL /\ eng.ctxState = "suspended"
    THEN [eng EXCEPT !.ctxState = "running"]
    ELSE eng

\* targetGain, in 1/GainScale
TargetGainUnclamped(intensity) == Times(intensity, GainNum * (GainScale \div (GainDen * Scale)))

TargetGain(intensity) ==
    MathMin(Times(intensity, GainNum * (GainScale \div (GainDen * Scale))), MaxGain)

\* targetFreq, in Hz/Scale
TargetFreq(intensity) ==
    IF IsFinite(intensity) THEN BaseFreq * Scale + intensity * FreqSpan
    ELSE intensity

\* updateWind(intensity).  setTargetAtTime takes a WebIDL float: a
\* non-finite target makes it throw a TypeError before it changes anything.
EngineUpdateWind(eng, intensity) ==
    IF eng.ctx = NULL \/ eng.gainNode = NULL \/ eng.filterNode = NULL
    THEN [engine |-> eng, threw |-> FALSE]
    ELSE LET g == TargetGain(intensity)
             f == TargetFreq(intensity)
         IN  IF ~IsFinite(g) THEN [engine |-> eng, threw |-> TRUE]
             ELSE IF ~IsFinite(f)
                  THEN [engine |-> [eng EXCEPT !.gain = g], threw |-> TRUE]
                  ELSE [engine |-> [eng EXCEPT !.gain = g, !.frequency = f],
                        threw |-> FALSE]

\* stop(): close() on a context that is already closed is a second release
EngineStopNoGuard(eng) ==
    [eng EXCEPT !.ctxState = "closed",
                !.reclosed = @ \/ eng.ctxState = "closed",
                !.isInitialized = FALSE]

EngineStop(eng) ==
    IF eng.ctx # NULL
    THEN [eng EXCEPT !.ctxState = "closed",
                     !.reclosed = @ \/ eng.ctxState = "closed",
                     !.isInitialized = FALSE]
    ELSE eng

\* ---------------------------------------------------------------- smoother
\* setSmoothedVelocity(prev => prev + (velocity - prev) * 0.1)
LerpOvershoot(prev, target) ==
    IF prev = NaN \/ target = NaN THEN NaN
    ELSE prev + RoundDiv((target - prev) * (LerpDen + 1), LerpDen)

Lerp(prev, target) ==
    IF prev = NaN \/ target = NaN THEN NaN
    ELSE prev + RoundDiv(target - prev, LerpDen)

\* ------------------------------------------------------- session statistics
NewStats == [totalVelocity |-> 0, peakVelocity |-> 0, samples |-> 0, startTime |-> 0]

\* handleStart lines 123-126
ResetStatsKeepPeak(st, t) ==
    [st EXCEPT !.startTime = t, !.totalVelocity = 0, !.samples = 0]

ResetStats(st, t) ==
    [st EXCEPT !.startTime = t, !.totalVelocity = 0, !.samples = 0, !.peakVelocity = 0]

\* the statistics part of the effect: if (smoothedVelocity > 0.05) { ... }
RecordSampleNoDeadband(st, sv) ==
    [st EXCEPT !.totalVelocity = @ + sv,
               !.samples = @ + 1,
               !.peakVelocity = IF sv > @ THEN sv ELSE @]

RecordSampleNoPeak(st, sv) ==
    IF sv # NaN /\ sv * DeadbandDen > DeadbandNum * Scale
    THEN [st EXCEPT !.totalVelocity = @ + sv, !.samples = @ + 1]
    ELSE st

RecordSample(st, sv) ==
    IF sv # NaN /\ sv * DeadbandDen > DeadbandNum * Scale
    THEN [st EXCEPT !.totalVelocity = @ + sv,
                    !.samples = @ + 1,
                    !.peakVelocity = IF sv > @ THEN sv ELSE @]
    ELSE st

\* useEffect(() => { if (appState === ACTIVE) { updateWind; stats } },
\*           [smoothedVelocity, appState])
AudioStatsEffect(app, sv, eng, st) ==
    IF app # "ACTIVE" THEN [engine |-> eng, stats |-> st, threw |-> FALSE]
    ELSE LET r == EngineUpdateWind(eng, sv)
         IN  IF r.threw THEN [engine |-> r.engine, stats |-> st, threw |-> TRUE]
             ELSE [engine |-> r.engine, stats |-> RecordSample(st, sv), threw |-> FALSE]

\* What React runs after a handler that left appState at app2, velocity at
\* vel2 and smoothedVelocity at sm: a changed velocity re-runs the smoothing
\* effect, whose loop() takes one step at once; a changed smoothedVelocity
\* or appState re-runs the audio/statistics effect.  steps counts the
\* smoothing steps the render itself applied, updates the calls of
\* updateWind (each followed by the statistics block).
Rendered(app2, vel2, sm, eng, st) ==
    LET sm2 == IF vel2 # velocity THEN Lerp(sm, vel2) ELSE sm
        ran == sm2 # smoothedVelocity \/ app2 # appState
        r   == IF ran
               THEN AudioStatsEffect(app2, sm2, eng, st)
               ELSE [engine |-> eng, stats |-> st, threw |-> FALSE]
    IN  [smoothed |-> sm2, engine |-> r.engine, stats |-> r.stats, threw |-> r.threw,
         steps |-> IF vel2 # velocity THEN 1 ELSE 0,
         updates |-> IF ran /\ app2 = "ACTIVE" THEN 1 ELSE 0]

\* -------------------------------------------------------- MotionController
NoPos == [some |-> FALSE, x |-> 0, y |-> 0, time |-> 0]

\* phase: unmounted, loading (the landmarker is being fetched), detecting
\* (predictWebcam has a frame requested), idle (mounted, no frame requested).
\* seen is history: the last frame showed a hand ("hand"), or none, having
\* dropped a stored sample since the last hand ("lost") or not ("absent").
Unmounted == [phase |-> "unmounted", lastHandPos |-> NoPos, stream |-> FALSE,
              seen |-> "nothing"]

Mounted == [Unmounted EXCEPT !.phase = "loading"]

Clamp == (ClampNum * Scale) \div ClampDen

\* lines 216-226: the value handed to onVelocityChange
EstimateNoSensitivity(last, x, y, t) ==
    LET dx == x - last.x
        dy == y - last.y
        distance == MathSqrt(dx * dx + dy * dy)
    IN  MathMin(DivByDt(distance, t - last.time), Clamp)

EstimateVelocity(last, x, y, t) ==
    LET dx == x - last.x
        dy == y - last.y
        distance == MathSqrt(dx * dx + dy * dy)
        v == DivByDt(distance, t - last.time)
    IN  MathMin(Times(v, Sensitivity), Clamp)

\* lastHandPos after a frame
NextHandPosKeepAbsent(last, hand, x, y, t) ==
    IF hand THEN [some |-> TRUE, x |-> x, y |-> y, time |-> t] ELSE last

NextHandPos(last, hand, x, y, t) ==
    IF hand THEN [some |-> TRUE, x |-> x, y |-> y, time |-> t] ELSE NoPos

\* ------------------------------------------------------ generateCosmicInsight
\* What the service does with the request: "ok" resolves with the text of a
\* JSON object that has a title and an insight, "transport" rejects, "empty"
\* resolves with no text, "unparsable" resolves with text JSON.parse rejects.
Outcomes == {"ok", "transport", "empty", "unparsable"}

\* The promise generateCosmicInsight returns, settled: rejected or resolved
\* with a reading ("parsed": the object in the text; "fallback": the pair
\* Connection Lost / The stars are silent momentarily ...).
GenerateCosmicInsightNoCatch(outcome) ==
    IF outcome = "ok" THEN [rejected |-> FALSE, reading |-> "parsed"]
    ELSE [rejected |-> TRUE, reading |-> "null"]

\* lines 23-50: await generateContent (throws on "transport"),
\* if (!text) throw (on "empty"), JSON.parse (throws on "unparsable"),
\* and the catch block that returns the fixed pair
GenerateCosmicInsight(outcome) ==
    LET awaitThrew == outcome = "transport"
        noText     == ~awaitThrew /\ outcome = "empty"
        parseThrew == ~awaitThrew /\ ~noText /\ outcome = "unparsable"
    IN  IF awaitThrew \/ noText \/ parseThrew
        THEN [rejected |-> FALSE, reading |-> "fallback"]
        ELSE [rejected |-> FALSE, reading |-> "parsed"]

\* what handleEndSession hands to setCosmicReading
InsightReadingNoFallback(outcome) == IF outcome = "ok" THEN "parsed" ELSE "null"

InsightReading(outcome) == GenerateCosmicInsight(outcome).reading

\* -------------------------------------------------------------- GalaxyScene
\* The two Float32Arrays as allocated (zero-filled, 3 * count cells), the
\* loop index of the generator, and the transform of the <points> object.
\* Cells, angles and the transform are in 1/Scale; Float32 rounding is
\* finer than that grain.
NewGalaxy ==
    [i |-> 0,
     positions |-> [k \in 1..(3 * Count) |-> 0],
     colors |-> [k \in 1..(3 * Count) |-> 0],
     rotation |-> [x |-> 0, y |-> 0],
     scale |-> [x |-> Scale, y |-> Scale, z |-> Scale]]

\* line 48
ParticleRadius(u) == Times(u, Radius)

\* line 50: ((i % branches) / branches) * Math.PI * 2
BranchAngleNoMod(i) ==
    RoundDiv(RoundDiv(i * Scale, Branches) * Pi, Scale) * 2

BranchAngle(i) ==
    RoundDiv(RoundDiv((i % Branches) * Scale, Branches) * Pi, Scale) * 2

\* lines 52-54: Math.pow(u, 3) * (v < 0.5 ? 1 : -1) * randomness * radius
RandomOffset(u, v, radius) ==
    LET sign == IF 2 * v < Scale THEN 1 ELSE 0 - 1
        a    == MathPow(u, RandomnessPower) * sign
        b    == RoundDiv(a * RandomnessNum, RandomnessDen)
    IN  RoundDiv(b * radius, Scale)

\* new THREE.Color('#rrggbb'), one channel
Channel(byte) == RoundDiv(byte * Scale, ByteMax)

\* lines 61-62: colorInside.clone().lerp(colorOutside, radius / parameters.radius)
MixedColor(k, radius) ==
    LET inside  == Channel(InsideColor[k])
        outside == Channel(OutsideColor[k])
        alpha   == RoundDiv(radius, Radius)
    IN  inside + RoundDiv((outside - inside) * alpha, Scale)

\* one iteration of the loop, lines 44-67, on the draws d
GenerateOne(g, d) ==
    LET i3          == g.i * 3
        radius      == ParticleRadius(d[1])
        spinAngle   == radius * Spin
        branchAngle == BranchAngle(g.i)
        randomX     == RandomOffset(d[2], d[3], radius)
        randomY     == RandomOffset(d[4], d[5], radius)
        randomZ     == RandomOffset(d[6], d[7], radius)
    IN  [g EXCEPT
            !.i = g.i + 1,
            !.positions = [@ EXCEPT
                ![i3 + 1] = RoundDiv(MathCos(branchAngle + spinAngle) * radius, Scale) + randomX,
                ![i3 + 2] = randomY,
                ![i3 + 3] = RoundDiv(MathSin(branchAngle + spinAngle) * radius, Scale) + randomZ],
            !.colors = [@ EXCEPT
                ![i3 + 1] = MixedColor(1, radius),
                ![i3 + 2] = MixedColor(2, radius),
                ![i3 + 3] = MixedColor(3, radius)]]

\* line 78
RotationSpeedNoBase(v, delta) ==
    IF v = NaN THEN NaN ELSE RoundDiv(SpinGain * v * delta, Scale)

RotationSpeed(v, delta) ==
    IF v = NaN THEN NaN
    ELSE RoundDiv(BaseSpinNum * delta, BaseSpinDen) + RoundDiv(SpinGain * v * delta, Scale)

\* THREE.MathUtils.lerp(x, y, 0.1) = (1 - t) * x + t * y
MathUtilsLerp(x, y) ==
    IF x = NaN \/ y = NaN THEN NaN
    ELSE RoundDiv((FrameLerpDen - 1) * x, FrameLerpDen) + RoundDiv(y, FrameLerpDen)

\* Vector3.lerp(v, 0.1), one component: this.x += (v.x - this.x) * alpha
Vector3Lerp(x, y) ==
    IF x = NaN \/ y = NaN THEN NaN ELSE x + RoundDiv(y - x, FrameLerpDen)

\* the useFrame callback, lines 76-87, with the prop velocity = v
FrameStep(g, v, delta) ==
    LET targetScale == IF v = NaN THEN NaN ELSE Scale + RoundDiv(v * ScaleGainNum, ScaleGainDen)
        tilt        == IF v = NaN THEN NaN ELSE RoundDiv(v * TiltNum, TiltDen)
        speed       == RotationSpeed(v, delta)
    IN  [g EXCEPT
            !.rotation = [x |-> MathUtilsLerp(g.rotation.x, tilt),
                          y |-> IF g.rotation.y = NaN \/ speed = NaN THEN NaN
                                ELSE g.rotation.y + speed],
            !.scale = [x |-> Vector3Lerp(g.scale.x, targetScale),
                       y |-> Vector3Lerp(g.scale.y, targetScale),
                       z |-> Vector3Lerp(g.scale.z, targetScale)]]

\* -------------------------------------------------------------------- Init
\* App mounted in INTRO; the smoothing effect has run loop() once (0 -> 0)
\* and requested its first frame.
Init ==
    /\ appState = "INTRO"
    /\ velocity = 0
    /\ smoothedVelocity = 0
    /\ cosmicReading = "null"
    /\ sessionStats = NewStats
    /\ audioEngine = NewEngine
    /\ motion = Unmounted
    /\ now = 0
    /\ pendingStarts = 0
    /\ pendingInsights = <<>>
    /\ cameraTracks = 0
    /\ smoothingLoop = TRUE
    /\ crashed = FALSE
    /\ galaxy = NewGalaxy
    /\ ticks = 0 /\ frames = 0 /\ clicks = 0
    /\ lastOp = [op |-> "mount"]

\* MotionController after a render with appState = app2
Remount(app2) ==
    IF app2 = "ACTIVE"
    THEN (IF appState = "ACTIVE" THEN motion ELSE Mounted)
    ELSE Unmounted

\* The camera effect's cleanup stops the tracks only if videoRef.current is
\* still set when it runs; whether React has cleared the ref by then depends
\* on the React release the build uses, so seesVideo is open.  The stream
\* handleStart opened is referenced nowhere.
TracksAfter(app2, seesVideo) ==
    IF appState = "ACTIVE" /\ app2 # "ACTIVE" /\ motion.stream /\ seesVideo
    THEN cameraTracks - 1
    ELSE cameraTracks

\* ----------------------------------------------------------------- actions
\* the smoothing loop's animation frame: part_000:89-95
SmoothTick ==
    /\ ~crashed
    /\ smoothingLoop
    /\ LET r == Rendered(appState, velocity, Lerp(smoothedVelocity, velocity),
                         audioEngine, sessionStats)
       IN  /\ smoothedVelocity' = r.smoothed
           /\ audioEngine' = r.engine
           /\ sessionStats' = r.stats
           /\ crashed' = r.threw
           /\ lastOp' = [op |-> "loop", prev |-> smoothedVelocity, target |-> velocity,
                         updates |-> r.updates]
    /\ smoothingLoop' = TRUE
    /\ UNCHANGED <<galaxy, appState, velocity, cosmicReading, motion, now, pendingStarts,
                   pendingInsights, cameraTracks, frames, clicks>>

\* INITIALIZE SYSTEM: handleStart up to its await
ClickStart ==
    /\ ~crashed
    /\ appState = "INTRO"
    /\ clicks < MaxClicks
    /\ clicks' = clicks + 1
    /\ pendingStarts' = pendingStarts + 1
    /\ lastOp' = [op |-> "other"]
    /\ UNCHANGED <<galaxy, appState, velocity, smoothedVelocity, cosmicReading, sessionStats,
                   audioEngine, motion, now, pendingInsights, cameraTracks,
                   smoothingLoop, crashed, ticks, frames>>

\* getUserMedia rejects: the catch block alerts
StartDenied ==
    /\ ~crashed
    /\ pendingStarts > 0
    /\ pendingStarts' = pendingStarts - 1
    /\ lastOp' = [op |-> "other"]
    /\ UNCHANGED <<galaxy, appState, velocity, smoothedVelocity, cosmicReading, sessionStats,
                   audioEngine, motion, now, pendingInsights, cameraTracks,
                   smoothingLoop, crashed, ticks, frames, clicks>>

\* getUserMedia resolves: handleStart lines 120-126, the catch block if
\* init() throws, then the render
StartGranted(ok, suspended) ==
    /\ ~crashed
    /\ pendingStarts > 0
    /\ pendingStarts' = pendingStarts - 1
    /\ appState' = "ACTIVE"
    /\ LET i  == EngineInit(audioEngine, ok, suspended)
           e1 == IF i.threw THEN i.engine ELSE EngineResume(i.engine)
           s1 == IF i.threw THEN sessionStats ELSE ResetStats(sessionStats, now)
           r  == Rendered("ACTIVE", velocity, smoothedVelocity, e1, s1)
       IN  /\ audioEngine' = r.engine
           /\ sessionStats' = r.stats
           /\ smoothedVelocity' = r.smoothed
           /\ crashed' = r.threw
           /\ lastOp' = [op |-> "handleStart", initThrew |-> i.threw,
                         before |-> audioEngine, samples |-> sessionStats.samples,
                         updates |-> r.updates]
    /\ motion' = Remount("ACTIVE")
    /\ cameraTracks' = cameraTracks + 1
    /\ UNCHANGED <<galaxy, velocity, cosmicReading, now, pendingInsights, smoothingLoop,
                   ticks, frames, clicks>>

\* MotionController's two effects finish: the landmarker is loaded (or not)
\* and startCamera has its stream (or not); predictWebcam starts on
\* loadeddata and stops at once without a landmarker
MotionReady(model, camera) ==
    /\ ~crashed
    /\ motion.phase = "loading"
    /\ motion' = [motion EXCEPT !.phase = IF model /\ camera THEN "detecting" ELSE "idle",
                                !.stream = camera]
    /\ cameraTracks' = IF camera THEN cameraTracks + 1 ELSE cameraTracks
    /\ lastOp' = [op |-> "other"]
    /\ UNCHANGED <<galaxy, appState, velocity, smoothedVelocity, cosmicReading, sessionStats,
                   audioEngine, now, pendingStarts, pendingInsights, smoothingLoop,
                   crashed, ticks, frames, clicks>>

\* one detector frame, d ms after the one before: predictWebcam,
\* part_001:204-240, then the render
PredictWebcam(hand, x, y, d) ==
    /\ ~crashed
    /\ motion.phase = "detecting"
    /\ now' = now + d
    /\ LET t      == now + d
           last   == motion.lastHandPos
           called == ~hand \/ last.some
           v      == IF ~hand THEN 0
                     ELSE IF last.some THEN EstimateVelocity(last, x, y, t)
                     ELSE velocity
           r      == Rendered(appState, v, smoothedVelocity, audioEngine, sessionStats)
       IN  /\ velocity' = v
           /\ motion' = [motion EXCEPT
                            !.lastHandPos = NextHandPos(last, hand, x, y, t),
                            !.seen = IF hand THEN "hand"
                                     ELSE IF last.some \/ motion.seen = "lost"
                                          THEN "lost" ELSE "absent"]
           /\ smoothedVelocity' = r.smoothed
           /\ audioEngine' = r.engine
           /\ sessionStats' = r.stats
           /\ crashed' = r.threw
           /\ lastOp' = [op |-> "predictWebcam", hand |-> hand,
                         x |-> IF hand THEN x ELSE 0, y |-> IF hand THEN y ELSE 0,
                         t |-> t, prev |-> last, seen |-> motion.seen,
                         called |-> called, before |-> velocity,
                         steps |-> r.steps, updates |-> r.updates]
    /\ UNCHANGED <<galaxy, appState, cosmicReading, pendingStarts, pendingInsights,
                   cameraTracks, smoothingLoop, ticks, clicks>>

\* END SESSION & ANALYZE: handleEndSession up to its await, then the render
\* (MotionController unmounts)
ClickEnd(seesVideo) ==
    /\ ~crashed
    /\ appState = "ACTIVE"
    /\ appState' = "ANALYZING"
    /\ audioEngine' = EngineStop(audioEngine)
    /\ pendingInsights' = Append(pendingInsights,
          [avgSpeed |-> IF sessionStats.samples > 0
                        THEN RoundDiv(sessionStats.totalVelocity, sessionStats.samples)
                        ELSE 0,
           peakIntensity |-> sessionStats.peakVelocity,
           durationMs |-> now - sessionStats.startTime])
    /\ motion' = Remount("ANALYZING")
    /\ cameraTracks' = TracksAfter("ANALYZING", seesVideo)
    /\ lastOp' = [op |-> "handleEndSession"]
    /\ UNCHANGED <<galaxy, velocity, smoothedVelocity, cosmicReading, sessionStats, now,
                   pendingStarts, smoothingLoop, crashed, ticks, frames, clicks>>

\* generateCosmicInsight settles: handleEndSession lines 148-149, which a
\* rejected promise would skip
InsightDone(i, outcome, seesVideo) ==
    /\ ~crashed
    /\ i \in 1..Len(pendingInsights)
    /\ pendingInsights' = [k \in 1..(Len(pendingInsights) - 1) |->
                              IF k < i THEN pendingInsights[k] ELSE pendingInsights[k + 1]]
    /\ LET g    == GenerateCosmicInsight(outcome)
           app2 == IF g.rejected THEN appState ELSE "INSIGHT"
       IN  /\ cosmicReading' = IF g.rejected THEN cosmicReading ELSE InsightReading(outcome)
           /\ appState' = app2
           /\ motion' = Remount(app2)
           /\ cameraTracks' = TracksAfter(app2, seesVideo)
           /\ lastOp' = [op |-> "insight", outcome |-> outcome, rejected |-> g.rejected]
    /\ UNCHANGED <<galaxy, velocity, smoothedVelocity, sessionStats, audioEngine, now,
                   pendingStarts, smoothingLoop, crashed, ticks, frames, clicks>>

\* RESTART SEQUENCE (rendered only with a reading)
ClickRestart ==
    /\ ~crashed
    /\ appState = "INSIGHT"
    /\ cosmicReading # "null"
    /\ appState' = "INTRO"
    /\ lastOp' = [op |-> "other"]
    /\ UNCHANGED <<galaxy, velocity, smoothedVelocity, cosmicReading, sessionStats, audioEngine,
                   motion, now, pendingStarts, pendingInsights, cameraTracks,
                   smoothingLoop, crashed, ticks, frames, clicks>>

\* the generator of GalaxyScene's useMemo, one particle
GenerateParticle(d) ==
    /\ ~crashed
    /\ galaxy.i < Count
    /\ galaxy' = GenerateOne(galaxy, d)
    /\ lastOp' = [op |-> "generate", i |-> galaxy.i, before |-> galaxy,
                  radius |-> ParticleRadius(d[1]), branchAngle |-> BranchAngle(galaxy.i)]
    /\ UNCHANGED <<appState, velocity, smoothedVelocity, cosmicReading, sessionStats,
                   audioEngine, motion, now, pendingStarts, pendingInsights,
                   cameraTracks, smoothingLoop, crashed, ticks, frames, clicks>>

\* one frame of the renderer: the useFrame callback, once <points> is
\* mounted (pointsRef.current is set)
UseFrame(delta) ==
    /\ ~crashed
    /\ galaxy.i = Count
    /\ galaxy' = FrameStep(galaxy, smoothedVelocity, delta)
    /\ lastOp' = [op |-> "useFrame", delta |-> delta, before |-> galaxy]
    /\ UNCHANGED <<appState, velocity, smoothedVelocity, cosmicReading, sessionStats,
                   audioEngine, motion, now, pendingStarts, pendingInsights,
                   cameraTracks, smoothingLoop, crashed, ticks, clicks>>

\* ticks and frames, counted
Tick ==
    /\ ticks + frames < MaxSteps
    /\ ticks' = ticks + 1
    /\ SmoothTick

Frame ==
    /\ ticks + frames < MaxSteps
    /\ frames' = frames + 1
    /\ \/ \E x \in Xs, y \in AppYs, d \in AppTimeSteps : PredictWebcam(TRUE, x, y, d)
       \/ PredictWebcam(FALSE, 0, 0, 0)

Next ==
    \/ Tick
    \/ Frame
    \/ ClickStart
    \/ StartDenied
    \/ \E ok \in BOOLEAN, suspended \in BOOLEAN : StartGranted(ok, suspended)
    \/ \E model \in BOOLEAN, camera \in BOOLEAN : MotionReady(model, camera)
    \/ \E seesVideo \in BOOLEAN : ClickEnd(seesVideo)
    \/ \E i \in 1..MaxClicks, outcome \in Outcomes, seesVideo \in BOOLEAN :
          InsightDone(i, outcome, seesVideo)
    \/ ClickRestart

Spec == Init /\ [][Next]_vars

\* ------------------------------------------------ one session, running
\* The state after ClickStart, StartGranted(TRUE, .) and
\* MotionReady(TRUE, TRUE): the detector loop and the smoothing loop run.
RunningInit ==
    /\ appState = "ACTIVE"
    /\ velocity = 0
    /\ smoothedVelocity = 0
    /\ cosmicReading = "null"
    /\ sessionStats = NewStats
    /\ audioEngine = EngineUpdateWind(
                        EngineResume(EngineInit(NewEngine, TRUE, FALSE).engine), 0).engine
    /\ motion = [Mounted EXCEPT !.phase = "detecting", !.stream = TRUE]
    /\ now = 0
    /\ pendingStarts = 0
    /\ pendingInsights = <<>>
    /\ cameraTracks = 2
    /\ smoothingLoop = TRUE
    /\ crashed = FALSE
    /\ galaxy = NewGalaxy
    /\ ticks = 0 /\ frames = 0 /\ clicks = 1
    /\ lastOp = [op |-> "other"]

\* the estimator fed frame after frame
EstimatorFrame ==
    /\ frames < MaxFrames
    /\ frames' = frames + 1
    /\ \/ \E x \in Xs, y \in Ys, d \in TimeSteps : PredictWebcam(TRUE, x, y, d)
       \/ \E d \in TimeSteps : PredictWebcam(FALSE, 0, 0, d)

EstimatorSpec == RunningInit /\ [][EstimatorFrame]_vars

\* the pipeline: detector frames and smoothing ticks of one session
PipelineTick ==
    /\ ticks < MaxPipelineTicks
    /\ ticks' = ticks + 1
    /\ SmoothTick

PipelineFrame ==
    /\ frames < MaxPipelineFrames
    /\ frames' = frames + 1
    /\ \/ \E x \in Xs, y \in Ys, d \in TimeSteps : PredictWebcam(TRUE, x, y, d)
       \/ \E d \in TimeSteps : PredictWebcam(FALSE, 0, 0, d)

PipelineNext == PipelineTick \/ PipelineFrame

PipelineSpec == RunningInit /\ [][PipelineNext]_vars

\* ------------------------------- whole sessions, one start in flight
\* The application from its mount, with a user who does not click
\* INITIALIZE SYSTEM again while a permission request is pending.
SessionTick ==
    /\ ticks + frames < MaxSessionSteps
    /\ ticks' = ticks + 1
    /\ SmoothTick

SessionFrame ==
    /\ ticks + frames < MaxSessionSteps
    /\ frames' = frames + 1
    /\ \/ \E x \in Xs, y \in AppYs, d \in AppTimeSteps : PredictWebcam(TRUE, x, y, d)
       \/ PredictWebcam(FALSE, 0, 0, 0)

SessionStart == pendingStarts = 0 /\ ClickStart

SessionNext ==
    \/ SessionTick
    \/ SessionFrame
    \/ SessionStart
    \/ StartDenied
    \/ \E ok \in BOOLEAN, suspended \in BOOLEAN : StartGranted(ok, suspended)
    \/ \E model \in BOOLEAN, camera \in BOOLEAN : MotionReady(model, camera)
    \/ \E seesVideo \in BOOLEAN : ClickEnd(seesVideo)
    \/ \E outcome \in Outcomes, seesVideo \in BOOLEAN : InsightDone(1, outcome, seesVideo)
    \/ ClickRestart

SessionSpec == Init /\ [][SessionNext]_vars

\* the request to the service settles: generateContent resolves or rejects
InsightSettles ==
    \E outcome \in Outcomes, seesVideo \in BOOLEAN : InsightDone(1, outcome, seesVideo)

FairSessionSpec == SessionSpec /\ WF_vars(InsightSettles)

\* ------------------------------------------- the engine driven on its own
CallInit(ok, suspended) ==
    /\ audioEngine.isInitialized \/ ~ok \/ audioEngine.built < MaxGraphs
    /\ LET r == EngineInit(audioEngine, ok, suspended)
       IN  /\ audioEngine' = r.engine
           /\ lastOp' = [op |-> "init", before |-> audioEngine, threw |-> r.threw]
    /\ UNCHANGED appVars

CallResume ==
    /\ audioEngine' = EngineResume(audioEngine)
    /\ lastOp' = [op |-> "resume", before |-> audioEngine, threw |-> FALSE]
    /\ UNCHANGED appVars

CallUpdateWind(intensity) ==
    /\ LET r == EngineUpdateWind(audioEngine, intensity)
       IN  /\ audioEngine' = r.engine
           /\ lastOp' = [op |-> "updateWind", before |-> audioEngine,
                         threw |-> r.threw, intensity |-> intensity]
    /\ UNCHANGED appVars

CallStop ==
    /\ audioEngine' = EngineStop(audioEngine)
    /\ lastOp' = [op |-> "stop", before |-> audioEngine, threw |-> FALSE]
    /\ UNCHANGED appVars

EngineNext ==
    \/ \E ok \in BOOLEAN, suspended \in BOOLEAN : CallInit(ok, suspended)
    \/ CallResume
    \/ \E intensity \in Intensities \cup {NaN} : CallUpdateWind(intensity)
    \/ CallStop

EngineSpec == Init /\ [][EngineNext]_vars

\* ---------------------------------- the smoother run against a fixed target
SmootherInit ==
    /\ appState = "INTRO"
    /\ velocity \in Intensities
    /\ smoothedVelocity \in Intensities
    /\ cosmicReading = "null"
    /\ sessionStats = NewStats
    /\ audioEngine = NewEngine
    /\ motion = Unmounted
    /\ now = 0
    /\ pendingStarts = 0
    /\ pendingInsights = <<>>
    /\ cameraTracks = 0
    /\ smoothingLoop = TRUE
    /\ crashed = FALSE
    /\ galaxy = NewGalaxy
    /\ ticks = 0 /\ frames = 0 /\ clicks = 0
    /\ lastOp = [op |-> "mount"]

SmootherNext == SmoothTick /\ UNCHANGED ticks

SmootherSpec == SmootherInit /\ [][SmootherNext]_vars

\* loop() requests the next animation frame each time it runs, and the
\* browser runs every frame requested
FairSmootherSpec == SmootherSpec /\ WF_vars(SmootherNext)

\* ------------------------------------- the particle field on its own
GalaxyInit ==
    /\ appState = "INTRO"
    /\ velocity \in GalaxyIntensities
    /\ smoothedVelocity = velocity
    /\ cosmicReading = "null"
    /\ sessionStats = NewStats
    /\ audioEngine = NewEngine
    /\ motion = Unmounted
    /\ now = 0
    /\ pendingStarts = 0
    /\ pendingInsights = <<>>
    /\ cameraTracks = 0
    /\ smoothingLoop = TRUE
    /\ crashed = FALSE
    /\ galaxy = NewGalaxy
    /\ ticks = 0 /\ frames = 0 /\ clicks = 0
    /\ lastOp = [op |-> "mount"]

GalaxyFrame ==
    /\ frames < MaxGalaxyFrames
    /\ frames' = frames + 1
    /\ \E delta \in Deltas : UseFrame(delta)

GalaxyNext ==
    \/ \E d \in ParticleDraws : GenerateParticle(d)
    \/ GalaxyFrame

GalaxySpec == GalaxyInit /\ [][GalaxyNext]_vars

\* ================================================================== claims

\* ---- C1.  A frame whose timestamp is not later than the stored sample's
\* leaves the estimator as it was: the stored sample and the latest target
\* keep their values and onVelocityChange is not called.
C1_NonMonotonicSkipped ==
    (lastOp.op = "predictWebcam" /\ lastOp.hand /\ lastOp.prev.some
        /\ lastOp.t <= lastOp.prev.time)
    => /\ ~lastOp.called
       /\ motion.lastHandPos = lastOp.prev
       /\ velocity = lastOp.before

\* ---- C2.  For two consecutive samples with t2 > t1 the estimator emits
\* min(2 * distance / dt, 1.5), which is >= 0.  The emitted value e (in
\* 1/Scale) is compared with the real value through squares: e is 1.5 or
\* lies within the rounding of the three operations below
\* 2 * sqrt(d2) / CoordScale * 1000 / dt; the samples (0.1, 0.1, 0) and
\* (0.3, 0.1, 100 ms) give 1.5.
C2_EmittedVelocity ==
    (lastOp.op = "predictWebcam" /\ lastOp.hand /\ lastOp.prev.some
        /\ lastOp.t > lastOp.prev.time)
    => LET dt  == lastOp.t - lastOp.prev.time
           dx  == lastOp.x - lastOp.prev.x
           dy  == lastOp.y - lastOp.prev.y
           d2  == dx * dx + dy * dy
           e   == velocity
           tol == 2 * (1000 \div dt + 2)
           \* v * dt * CoordScale / 2000, squared, against Scale^2 * d2
           lo  == (e * dt * 10) \div 2000
           hi  == ((e + tol) * dt * 10) \div 2000 + 1
       IN  /\ lastOp.called
           /\ e >= 0
           /\ 2 * e <= 3 * Scale
           /\ lo * lo <= Scale * Scale * d2
           /\ 2 * e = 3 * Scale \/ hi * hi >= Scale * Scale * d2
           /\ (160000 * d2 >= 9 * dt * dt) => 2 * e + 2 * tol >= 3 * Scale
           /\ (d2 = 4 /\ dt = 100) => 2 * e = 3 * Scale

C2_Witness ==
    /\ lastOp.op = "predictWebcam" /\ lastOp.hand /\ lastOp.prev.some
    /\ lastOp.t - lastOp.prev.time = 400
    /\ Abs(lastOp.x - lastOp.prev.x) = 2 /\ Abs(lastOp.y - lastOp.prev.y) = 1
    /\ velocity = 11180

\* ---- C3.  A frame without a hand signals the target 0 and clears the
\* stored sample; the first frame with a hand after it emits nothing (the
\* target stays 0), finds no stored sample to compare with, and stores its
\* own.
C3_AbsenceClears ==
    /\ (lastOp.op = "predictWebcam" /\ ~lastOp.hand)
       => (lastOp.called /\ velocity = 0 /\ ~motion.lastHandPos.some)
    /\ (lastOp.op = "predictWebcam" /\ lastOp.hand /\ lastOp.seen \in {"absent", "lost"})
       => /\ ~lastOp.called
          /\ ~lastOp.prev.some
          /\ velocity = 0
          /\ motion.lastHandPos = [some |-> TRUE, x |-> lastOp.x, y |-> lastOp.y,
                                   time |-> lastOp.t]

C3_Witness ==
    /\ lastOp.op = "predictWebcam" /\ lastOp.hand /\ lastOp.seen = "lost"
    /\ motion.lastHandPos.some

\* One smoothing step toward the target T never increases |T - state|, never
\* crosses T, and shrinks |T - state| to 9/10, up to the rounding of the step.
StepContracts ==
    lastOp.op = "loop"
    => LET T == lastOp.target
           p == lastOp.prev
           s == smoothedVelocity
       IN  /\ Abs(T - s) <= Abs(T - p)
           /\ (p <= T => (p <= s /\ s <= T))
           /\ (p >= T => (T <= s /\ s <= p))
           /\ 10 * Abs(T - s) <= 9 * Abs(T - p) + 5
           /\ (Abs(T - p) >= 5 => Abs(T - s) < Abs(T - p))

\* ---- C4.  Against a fixed target T every smoothing step is a contraction
\* toward T without overshoot, and the state converges to T: it ends, and
\* stays, within the rounding of one step (5/Scale) of T.
C4_Contraction ==
    /\ []StepContracts
    /\ <>[](Abs(velocity - smoothedVelocity) < 5)

C4_Witness ==
    /\ lastOp.op = "loop"
    /\ lastOp.target = 15000
    /\ lastOp.prev < smoothedVelocity
    /\ smoothedVelocity > 14990

\* ---- C5.  In every state of the running pipeline the gain target lies in
\* [0, 0.8] and the cutoff target in [200, 1700] Hz.
C5_AudioRanges ==
    audioEngine.isInitialized
    => /\ 0 <= audioEngine.gain /\ 10 * audioEngine.gain <= 8 * GainScale
       /\ 200 * Scale <= audioEngine.frequency
       /\ audioEngine.frequency <= 1700 * Scale

\* ---- C6.  On an initialized engine update(intensity), for an intensity in
\* [0, 1.5], sets the gain target to min(intensity * 1.5, 0.8) and the cutoff
\* target to 200 + intensity * 1500: (0, 200) for 0 and (0.8, 1700) for 1.0.
C6_UpdateTargets ==
    (lastOp.op = "updateWind" /\ lastOp.before.isInitialized
        /\ lastOp.intensity # NaN)
    => LET i == lastOp.intensity
           g == audioEngine.gain
           f == audioEngine.frequency
       IN  /\ ~lastOp.threw
           /\ 10 * Scale * g = IF 15 * i <= 8 * Scale THEN 15 * i * GainScale
                                                    ELSE 8 * Scale * GainScale
           /\ f = 200 * Scale + 1500 * i
           /\ (i = 0 => (g = 0 /\ f = 200 * Scale))
           /\ (i = Scale => (10 * g = 8 * GainScale /\ f = 1700 * Scale))

C6_Witness ==
    /\ lastOp.op = "updateWind" /\ lastOp.before.isInitialized
    /\ lastOp.intensity = Scale
    /\ 10 * audioEngine.gain = 8 * GainScale

\* ---- C7.  init() on an initialized engine changes nothing: same context,
\* same nodes, no further graph built or started, no throw.
C7_InitIdempotent ==
    (lastOp.op = "init" /\ lastOp.before.isInitialized)
    => (audioEngine = lastOp.before /\ ~lastOp.threw)

C7_Witness ==
    /\ lastOp.op = "init" /\ lastOp.before.isInitialized
    /\ audioEngine.built = 1 /\ audioEngine.started = 1

\* ---- C8.  Before any successful init(), stop(), resume() and update() do
\* not throw and leave the engine with no context, no nodes and
\* isInitialized = false.
C8_NoOpsBeforeInit ==
    /\ audioEngine.built = 0 => audioEngine = NewEngine
    /\ (lastOp.op \in {"stop", "resume", "updateWind"} /\ lastOp.before.built = 0)
       => (audioEngine = lastOp.before /\ ~lastOp.threw)

C8_Witness ==
    /\ lastOp.op = "stop" /\ lastOp.before.built = 0
    /\ audioEngine = NewEngine

\* ---- C9.  When init() throws inside handleStart the engine stays
\* uninitialized and the application is not left treating the session as
\* running.
C9_InitFailureSafe ==
    (lastOp.op = "handleStart" /\ lastOp.initThrew)
    => (~audioEngine.isInitialized /\ appState # "ACTIVE")

\* ---- C10.  After handleEndSession neither loop has a frame requested or
\* runs, the audio graph is released, and no camera track is live.
C10_StopCancels ==
    /\ lastOp.op = "handleEndSession"
       => /\ ~smoothingLoop
          /\ motion.phase # "detecting"
          /\ ~audioEngine.isInitialized
          /\ audioEngine.ctx # NULL => audioEngine.ctxState = "closed"
          /\ cameraTracks = 0
    /\ (lastOp.op \in {"loop", "predictWebcam"}) => appState \notin {"ANALYZING", "INSIGHT"}

\* ---- C11.  During an active session every render tick (one run of the
\* smoothing loop) is followed by exactly one audio update and one pass of
\* the statistics block, also when the smoothed intensity keeps the value
\* it had on the tick before.
C11_EveryTickUpdates ==
    (lastOp.op = "loop" /\ appState = "ACTIVE") => lastOp.updates = 1

\* What one step does to the statistics when it is a record or a finalize.
\* A render that ran the audio/statistics effect (updates = 1) called
\* record(s) with s the smoothed intensity it rendered.
C12_Step ==
    /\ (lastOp'.op \in {"loop", "predictWebcam"} /\ lastOp'.updates = 1)
       => LET s == smoothedVelocity'
          IN  IF s # NaN /\ 100 * s > 5 * Scale
              THEN /\ sessionStats'.samples = sessionStats.samples + 1
                   /\ sessionStats'.totalVelocity = sessionStats.totalVelocity + s
                   /\ sessionStats'.peakVelocity =
                         (IF s > sessionStats.peakVelocity THEN s
                          ELSE sessionStats.peakVelocity)
                   /\ sessionStats'.startTime = sessionStats.startTime
              ELSE sessionStats' = sessionStats
    /\ (lastOp'.op \in {"loop", "predictWebcam"} /\ lastOp'.updates = 0)
       => sessionStats' = sessionStats
    /\ lastOp'.op = "handleEndSession"
       => LET sent == pendingInsights'[Len(pendingInsights')]
              n    == sessionStats.samples
          IN  /\ sessionStats' = sessionStats
              /\ Len(pendingInsights') = Len(pendingInsights) + 1
              /\ n = 0 => sent.avgSpeed = 0
              /\ n > 0 => 2 * Abs(sent.avgSpeed * n - sessionStats.totalVelocity) <= n
              /\ sent.peakIntensity = sessionStats.peakVelocity
              /\ sent.durationMs = now - sessionStats.startTime

\* ---- C12.  record(s) changes the statistics only when s > 0.05, and then
\* adds one to the sample count, s to the sum, and raises the peak to s if s
\* exceeds it; handleEndSession hands generateCosmicInsight the average
\* sum/samples (0 without samples, the quotient rounded to 1/Scale), the peak
\* and now - startTime, and leaves the statistics as they are.
C12_RecordFinalize == [][C12_Step]_vars

C12_Witness ==
    /\ lastOp.op = "handleEndSession"
    /\ sessionStats.samples = 2
    /\ sessionStats.peakVelocity > 500
    /\ pendingInsights[1].avgSpeed > 500
    /\ pendingInsights[1].avgSpeed < pendingInsights[1].peakIntensity
    /\ pendingInsights[1].durationMs = 400

\* What one step does to the statistics when it is a session start, and
\* which steps touch them at all.
C13_Step ==
    /\ (lastOp'.op = "handleStart" /\ ~lastOp'.initThrew)
       => LET s == smoothedVelocity'
          IN  /\ appState' = "ACTIVE"
              /\ sessionStats'.startTime = now'
              /\ IF lastOp'.updates = 1 /\ s # NaN /\ 100 * s > 5 * Scale
                 THEN /\ sessionStats'.samples = 1
                      /\ sessionStats'.totalVelocity = s
                      /\ sessionStats'.peakVelocity = s
                 ELSE /\ sessionStats'.samples = 0
                      /\ sessionStats'.totalVelocity = 0
                      /\ sessionStats'.peakVelocity = 0
    /\ lastOp'.op \notin {"handleStart", "loop", "predictWebcam"}
       => sessionStats' = sessionStats
    /\ appState' # "ACTIVE" => sessionStats' = sessionStats

\* ---- C13.  Every handleStart that gets through (permission granted,
\* init() returns) sets sum, sample count and peak to 0 and startTime to
\* now before the render after it records the first sample of the session,
\* also on a restart; no step outside an active session touches the
\* statistics, so what handleEndSession reads was accumulated since that
\* start.
C13_StartResets == [][C13_Step]_vars

C13_Witness ==
    /\ lastOp.op = "handleStart" /\ ~lastOp.initThrew
    /\ lastOp.samples = 2
    /\ audioEngine.built = 2
    /\ sessionStats.samples = 1
    /\ sessionStats.totalVelocity = smoothedVelocity
    /\ sessionStats.startTime = 400

\* ---- C14.  When generateContent rejects, resolves without text, or
\* resolves with text that JSON.parse rejects, generateCosmicInsight
\* resolves with the fixed fallback pair: its promise is not rejected, and
\* handleEndSession goes on to show that pair.
C14_FallbackOnFailure ==
    (lastOp.op = "insight" /\ lastOp.outcome \in {"transport", "empty", "unparsable"})
    => /\ ~lastOp.rejected
       /\ cosmicReading = "fallback"
       /\ appState = "INSIGHT"

C14_Witness ==
    /\ lastOp.op = "insight" /\ lastOp.outcome = "unparsable"
    /\ cosmicReading = "fallback"
    /\ sessionStats.samples > 0

\* ---- C15.  Whatever Math.random() returns, the position and the colour
\* array have exactly 3 * count cells at every point of the generation and
\* after it, every particle's radius lies in [0, 5], and particle i gets the
\* branch angle (i mod branches) / branches * 2 pi (up to the rounding of its
\* three operations); iteration i writes cells 3i .. 3i+2 only.
C15_GeneratedField ==
    /\ Len(galaxy.positions) = 3 * Count
    /\ Len(galaxy.colors) = 3 * Count
    /\ galaxy.i <= Count
    /\ lastOp.op = "generate"
       => /\ 0 <= lastOp.radius /\ lastOp.radius <= 5 * Scale
          /\ Abs(3 * lastOp.branchAngle - (lastOp.i % 3) * 2 * Pi) <= 15
          /\ galaxy.i = lastOp.i + 1
          /\ \A k \in 1..(3 * Count) :
                (k <= 3 * lastOp.i \/ k > 3 * lastOp.i + 3)
                => /\ galaxy.positions[k] = lastOp.before.positions[k]
                   /\ galaxy.colors[k] = lastOp.before.colors[k]

C15_Witness ==
    /\ lastOp.op = "generate"
    /\ lastOp.i = Branches
    /\ lastOp.radius = 49995
    /\ lastOp.branchAngle = 0
    /\ galaxy.positions[3 * Branches + 1] # 0
    /\ galaxy.positions[4] # 0

\* ---- C16.  Smoothing steps are applied by animation ticks only: a
\* detector frame, whatever target it emits, applies none, so that between
\* two consecutive ticks exactly one step is applied.
C16_OneStepPerTick ==
    lastOp.op = "predictWebcam" => lastOp.steps = 0

\* ---- C17.  In every state the smoothed intensity is a number in
\* [0, 1.5], and a tick with no hand present (target 0) takes the value v
\* to 0.9 v, up to the rounding of the step.
C17_SmoothedInRange ==
    /\ smoothedVelocity # NaN
    /\ 0 <= smoothedVelocity
    /\ 2 * smoothedVelocity <= 3 * Scale
    /\ (lastOp.op = "loop" /\ lastOp.target = 0)
       => Abs(10 * smoothedVelocity - 9 * lastOp.prev) <= 5

\* ---- C18.  stop() on an initialized engine closes the context and marks
\* the engine uninitialized; on a stopped engine update(intensity) changes
\* no audio parameter and stop() does not close the context again; a later
\* init() builds a fresh graph with gain 0 and cutoff 200 Hz.
C18_StoppedIsInert ==
    /\ (lastOp.op = "stop" /\ lastOp.before.isInitialized)
       => (~audioEngine.isInitialized /\ audioEngine.ctxState = "closed")
    /\ (lastOp.op = "updateWind" /\ lastOp.before.ctxState = "closed")
       => /\ audioEngine.gain = lastOp.before.gain
          /\ audioEngine.frequency = lastOp.before.frequency
    /\ ~audioEngine.reclosed
    /\ (lastOp.op = "init" /\ lastOp.before.ctxState = "closed" /\ ~lastOp.threw)
       => /\ audioEngine.isInitialized
          /\ audioEngine.ctx # lastOp.before.ctx
          /\ audioEngine.gain = 0
          /\ audioEngine.frequency = 200 * Scale

\* ---- C19.  A frame of the field animator with elapsed time dt >= 0 and
\* smoothed intensity s >= 0 adds (0.05 + 2 s) dt to rotation.y, which
\* therefore never decreases, moves rotation.x one tenth of the way toward
\* 0.5 s and each component of the (uniform) scale one tenth of the way
\* toward 1 + 0.5 s, all up to the rounding of the operations, and leaves
\* the position and colour arrays as they were.
C19_AnimatorFrame ==
    (lastOp.op = "useFrame" /\ lastOp.delta >= 0 /\ smoothedVelocity >= 0)
    => LET s  == smoothedVelocity
           b  == lastOp.before
           g  == galaxy
       IN  /\ Abs(Scale * (g.rotation.y - b.rotation.y) - (500 + 2 * s) * lastOp.delta)
                 <= Scale
           /\ g.rotation.y >= b.rotation.y
           /\ Abs(20 * (g.rotation.x - b.rotation.x) - (s - 2 * b.rotation.x)) <= 25
           /\ Abs(20 * (g.scale.x - b.scale.x) - (2 * Scale + s - 2 * b.scale.x)) <= 25
           /\ g.scale.y = g.scale.x /\ g.scale.z = g.scale.x
           /\ g.positions = b.positions
           /\ g.colors = b.colors
           /\ g.i = b.i

C19_Witness ==
    /\ lastOp.op = "useFrame" /\ lastOp.delta = 333
    /\ smoothedVelocity = 15000
    /\ lastOp.before.rotation.y > 0
    /\ galaxy.rotation.y > 1016
    /\ galaxy.rotation.x = 1425
    /\ galaxy.scale.x = 11425
    /\ galaxy.positions[1] # 0

\* ---- C20.  Once the user has ended an active session, and provided the
\* request to the service settles, the application leaves ANALYZING for
\* INSIGHT with a reading to show, whether the service answered or failed;
\* the settling of the request never puts the application in an error state.
C20_ReachesInsight ==
    /\ [](lastOp.op = "insight"
          => (appState = "INSIGHT" /\ cosmicReading \in {"parsed", "fallback"}
              /\ ~crashed /\ ~lastOp.rejected))
    /\ ((appState = "ANALYZING")
          ~> (appState = "INSIGHT" /\ cosmicReading \in {"parsed", "fallback"}))

C20_Witness ==
    /\ lastOp.op = "insight" /\ lastOp.outcome = "transport"
    /\ appState = "INSIGHT"
    /\ cosmicReading = "fallback"
    /\ pendingInsights = <<>>
    /\ ~audioEngine.isInitialized /\ audioEngine.ctxState = "closed"

\* ---- C21.  Under every interleaving of handleStart (awaiting the camera
\* permission, possibly several calls pending) and handleEndSession
\* (awaiting the insight), the engine is initialized only while the
\* application is ACTIVE: never in INTRO, ANALYZING or INSIGHT.
C21_InitializedOnlyActive ==
    audioEngine.isInitialized => appState = "ACTIVE"

\* ---- C22.  In every state the statistics satisfy samples >= 0,
\* sum > 0.05 * samples when samples > 0, and sum <= samples * peak, with
\* sum and peak 0 when there are no samples; the average handed to
\* generateCosmicInsight never exceeds the peak handed with it, and both
\* are 0 exactly when no sample was recorded.
C22_StatsInvariant ==
    LET n    == sessionStats.samples
        sum  == sessionStats.totalVelocity
        peak == sessionStats.peakVelocity
    IN  /\ n >= 0
        /\ n > 0 => 100 * sum > 5 * Scale * n
        /\ sum <= n * peak
        /\ n = 0 => (sum = 0 /\ peak = 0)
        /\ \A k \in 1..Len(pendingInsights) :
              /\ pendingInsights[k].avgSpeed <= pendingInsights[k].peakIntensity
              /\ pendingInsights[k].avgSpeed = 0 <=> pendingInsights[k].peakIntensity = 0
        /\ lastOp.op = "handleEndSession"
           => LET sent == pendingInsights[Len(pendingInsights)]
              IN  /\ sent.avgSpeed = 0 <=> n = 0
                  /\ sent.peakIntensity = 0 <=> n = 0

C22_Witness ==
    /\ lastOp.op = "handleEndSession"
    /\ audioEngine.built = 2
    /\ sessionStats.samples = 2
    /\ sessionStats.totalVelocity < 2 * sessionStats.peakVelocity
    /\ pendingInsights[1].avgSpeed > 500
    /\ pendingInsights[1].avgSpeed < pendingInsights[1].peakIntensity

====
